---- MODULE Spec2Model ----
(***************************************************************************)
(* Model of the zk-circuits crate: the four predicate chips (trust score,  *)
(* income range, identity, loan history) and the proof lifecycle exposed   *)
(* by ffi/mod.rs (initialize / prove / verify, and the C-compatible flat   *)
(* variant).  Spec is the managed boundary, SpecFlat the flat boundary     *)
(* beside initialization, SpecVerify proving with verification at both     *)
(* boundaries, SpecThreads the managed boundary called from several        *)
(* threads, SpecChips the chips' witness computations, the commitment      *)
(* utilities and the constraint systems.                                   *)
(*                                                                         *)
(* A field element of pasta Fp is modelled by its canonical to_repr()      *)
(* value: a little-endian sequence of ReprBytes bytes.  A u64 is modelled  *)
(* by its 8 little-endian bytes, so that 64-bit products can be computed   *)
(* without leaving the range of the model checker's integers.              *)
(***************************************************************************)
EXTENDS Integers, Naturals, Sequences, FiniteSets, TLC

\* ------------------------------------------------------------------ bounds
\* Inputs are taken from 0..Span and from ByteBase-Span..ByteBase+Span, the
\* values around the point where a second byte of the representation is used.
Span == 1
\* ProofResult structures the caller holds at once without freeing one.
MaxResults == 1
\* Threads of the host process that call the managed boundary at once.
NumThreads == 2
\* Longest identity datum given to the commitment utilities, in bytes.
MaxDataLen == 2

\* ------------------------------------------------------- program constants
ByteBase == 256       \* a u8 holds 0..255
ReprBytes == 32       \* length of Fp::to_repr()
U64Bytes == 8         \* bytes of a u64, and of field_to_u64's take(8)
RateScale == 10000    \* success rate is a percentage * 100
CircuitK == 4         \* let k = 4 in initialize_zk_system
MockProofLen == 15    \* b"mock_proof_data".len()
HashMultiplier == 31  \* hash.wrapping_mul(31) in utils::simple_hash

\* ---------------------------------------------------------- byte sequences
Zeros(n) == [i \in 1..n |-> 0]

RECURSIVE ToLeBytes(_, _)
\* The n low bytes of v, least significant first (u64::to_le_bytes).
ToLeBytes(v, n) ==
    IF n = 0 THEN <<>> ELSE <<v % ByteBase>> \o ToLeBytes(v \div ByteBase, n - 1)

\* A small integer as a u64.
U64(v) == ToLeBytes(v, U64Bytes)

\* Comparison of two equal-length byte slices as Rust compares [u8]:
\* lexicographic from index 0.  -1, 0 or 1.
SliceCmp(a, b) ==
    LET d == {i \in 1..Len(a) : a[i] # b[i]} IN
    IF d = {} THEN 0
    ELSE LET i == CHOOSE j \in d : \A l \in d : j <= l IN
         IF a[i] < b[i] THEN -1 ELSE 1

\* Comparison of two equal-length little-endian numbers by magnitude:
\* the most significant differing byte decides.  -1, 0 or 1.
NumCmp(a, b) ==
    LET d == {i \in 1..Len(a) : a[i] # b[i]} IN
    IF d = {} THEN 0
    ELSE LET i == CHOOSE j \in d : \A l \in d : j >= l IN
         IF a[i] < b[i] THEN -1 ELSE 1

\* ----------------------------------------------------------- field elements
\* F::from(u64) followed by to_repr(): the u64's bytes, zero-extended.
FpFrom(u) == u \o Zeros(ReprBytes - U64Bytes)
FpZero == FpFrom(U64(0))
FpOne == FpFrom(U64(1))

\* Value<F>: <<>> is Value::unknown(), <<f>> is Value::known(f).
Unknown == <<>>
Known(f) == <<f>>
IsKnown(v) == v # <<>>

\* field_to_u64: the first eight bytes of to_repr(), little-endian.
field_to_u64(f) == SubSeq(f, 1, U64Bytes)

\* ---------------------------------------------------------- u64 arithmetic
RECURSIVE MulCarry(_, _, _, _)
MulCarry(a, m, i, carry) ==
    IF i > Len(a) THEN ToLeBytes(carry, 2)
    ELSE LET t == a[i] * m + carry IN
         <<t % ByteBase>> \o MulCarry(a, m, i + 1, t \div ByteBase)

\* a * m over the integers, for a u64 a and 0 <= m < 2^16: ten bytes.
MulWide(a, m) == MulCarry(a, m, 1, 0)

\* Whether a * m exceeds the u64 range.
MulOverflows(a, m) == SubSeq(MulWide(a, m), U64Bytes + 1, U64Bytes + 2) # Zeros(2)

\* u64::wrapping_mul: the low eight bytes of the product.
WrappingMul(a, m) == SubSeq(MulWide(a, m), 1, U64Bytes)

RECURSIVE LeToInt(_)
\* The value of a little-endian number (used on divisors, which stay small).
LeToInt(a) == IF a = <<>> THEN 0 ELSE Head(a) + ByteBase * LeToInt(Tail(a))

RECURSIVE DivFrom(_, _, _, _)
DivFrom(a, d, i, rem) ==
    IF i = 0 THEN <<>>
    ELSE LET cur == rem * ByteBase + a[i] IN
         DivFrom(a, d, i - 1, cur % d) \o <<cur \div d>>

\* floor(a / d) for a little-endian a and an integer d > 0: as many bytes as a.
DivLe(a, d) == DivFrom(a, d, Len(a), 0)

RECURSIVE AddCarry(_, _, _, _)
AddCarry(a, b, i, carry) ==
    IF i > Len(a) THEN <<>>
    ELSE LET t == a[i] + b[i] + carry IN
         <<t % ByteBase>> \o AddCarry(a, b, i + 1, t \div ByteBase)

\* u64::wrapping_add: the sum of two u64 values modulo 2^64.
WrappingAdd(a, b) == AddCarry(a, b, 1, 0)

\* ------------------------------------------------ commitment utilities
RECURSIVE HashFrom(_, _, _)
HashFrom(data, i, hash) ==
    IF i > Len(data) THEN hash
    ELSE HashFrom(data, i + 1, WrappingAdd(WrappingMul(hash, HashMultiplier), U64(data[i])))

\* utils::simple_hash: hash = hash.wrapping_mul(31).wrapping_add(byte) over
\* the bytes in order, from 0.
simple_hash(data) == HashFrom(data, 1, U64(0))

\* A faulty variant of create_commitment: the nonce is not added.
create_commitment_no_nonce(identity_data, nonce) == simple_hash(identity_data)

\* utils::create_commitment.
create_commitment(identity_data, nonce) == WrappingAdd(simple_hash(identity_data), nonce)

\* utils::verify_commitment.
verify_commitment(identity_data, nonce, commitment) ==
    create_commitment(identity_data, nonce) = commitment

\* ------------------------------------------------------------- the chips
\* The gate every chip installs: s * (result * (result - 1)) = 0 on the row
\* where the selector is enabled.  In a field only 0 and 1 are roots.
BooleanGate(result) == result = FpZero \/ result = FpOne

\* TrustScoreChip::assign_comparison: the value written to the result cell.
assign_comparison(trust_score, threshold) ==
    IF ~IsKnown(trust_score) \/ ~IsKnown(threshold) THEN Unknown
    ELSE LET score_bytes == trust_score[1]
             thresh_bytes == threshold[1]
         IN Known(IF SliceCmp(score_bytes, thresh_bytes) >= 0 THEN FpOne ELSE FpZero)

\* IncomeRangeChip::assign_range_check: the value written to the result cell.
assign_range_check(income, min_range, max_range) ==
    IF ~IsKnown(income) \/ ~IsKnown(min_range) \/ ~IsKnown(max_range) THEN Unknown
    ELSE LET inc_bytes == income[1]
             min_bytes == min_range[1]
             max_bytes == max_range[1]
         IN Known(IF SliceCmp(inc_bytes, min_bytes) >= 0 /\ SliceCmp(inc_bytes, max_bytes) <= 0
                  THEN FpOne ELSE FpZero)

\* A faulty variant of assign_identity_verification: the two values are
\* compared after field_to_u64, as the loan chip decodes its inputs.
assign_identity_verification_u64(identity_hash, commitment) ==
    IF ~IsKnown(identity_hash) \/ ~IsKnown(commitment) THEN Unknown
    ELSE Known(IF field_to_u64(identity_hash[1]) = field_to_u64(commitment[1])
               THEN FpOne ELSE FpZero)

\* IdentityChip::assign_identity_verification: the value written to the
\* result cell (equality of field elements).
assign_identity_verification(identity_hash, commitment) ==
    IF ~IsKnown(identity_hash) \/ ~IsKnown(commitment) THEN Unknown
    ELSE Known(IF identity_hash[1] = commitment[1] THEN FpOne ELSE FpZero)

\* (repayments_u64 * 10000) / loans_u64 on u64 operands with loans_u64 # 0.
\* With overflow checks (debug profile) an overflowing product panics;
\* without them (release profile) it wraps.
ScaledRate(repayments_u64, loans_u64, overflow_checks) ==
    IF overflow_checks /\ MulOverflows(repayments_u64, RateScale)
    THEN [panicked |-> TRUE, rate |-> U64(0)]
    ELSE [panicked |-> FALSE,
          rate |-> DivLe(WrappingMul(repayments_u64, RateScale), LeToInt(loans_u64))]

\* LoanHistoryChip::assign_loan_history_verification: the success-rate cell
\* and the result cell, or a panic.
assign_loan_history_verification(num_loans, successful_repayments, min_success_rate, overflow_checks) ==
    LET ratek == IsKnown(num_loans) /\ IsKnown(successful_repayments)
        loans_u64 == field_to_u64(num_loans[1])
        repayments_u64 == field_to_u64(successful_repayments[1])
        sr == IF loans_u64 = U64(0) THEN [panicked |-> FALSE, rate |-> U64(0)]
              ELSE ScaledRate(repayments_u64, loans_u64, overflow_checks)
        success_rate_value == IF ratek /\ ~sr.panicked THEN Known(FpFrom(sr.rate)) ELSE Unknown
        result_value ==
            IF ~IsKnown(success_rate_value) \/ ~IsKnown(min_success_rate) THEN Unknown
            ELSE LET rate_u64 == field_to_u64(success_rate_value[1])
                     min_rate_u64 == field_to_u64(min_success_rate[1])
                 IN Known(IF NumCmp(rate_u64, min_rate_u64) >= 0 THEN FpOne ELSE FpZero)
    IN IF ratek /\ sr.panicked
       THEN [panicked |-> TRUE, success_rate |-> Unknown, result |-> Unknown]
       ELSE [panicked |-> FALSE, success_rate |-> success_rate_value, result |-> result_value]

\* utils::calculate_success_rate on u64 operands.
calculate_success_rate(num_loans, successful_repayments, overflow_checks) ==
    IF num_loans = U64(0) THEN [panicked |-> FALSE, rate |-> U64(0)]
    ELSE ScaledRate(successful_repayments, num_loans, overflow_checks)

\* utils::meets_success_rate_threshold.
meets_success_rate_threshold(num_loans, successful_repayments, min_success_rate, overflow_checks) ==
    LET success_rate == calculate_success_rate(num_loans, successful_repayments, overflow_checks)
    IN [panicked |-> success_rate.panicked,
        ret |-> ~success_rate.panicked /\ NumCmp(success_rate.rate, min_success_rate) >= 0]

\* XxxCircuit::new: Some(v) becomes a known field element, None is unknown.
CircuitValue(opt) == IF opt = <<>> THEN Unknown ELSE Known(FpFrom(opt[1]))

\* --------------------------------------------------- constraint systems
\* What a configure step leaves in the ConstraintSystem: the advice columns,
\* the columns with equality enabled, and the gates.  A gate polynomial is
\* the selector times a product of factors (column - minus); over a field
\* the product is zero exactly when one factor is.
BooleanPoly(selector, result) ==
    [selector |-> selector,
     factors |-> <<[column |-> result, minus |-> FpZero],
                   [column |-> result, minus |-> FpOne]>>]

\* A faulty variant of TrustScoreChip_configure: no gate is created.
TrustScoreChip_configure_no_gate ==
    [advice |-> <<"trust_score", "threshold", "result">>,
     equality |-> {"trust_score", "threshold", "result", "instance"},
     gates |-> <<>>]

\* TrustScoreCircuit::configure with TrustScoreChip::configure.
TrustScoreChip_configure ==
    [advice |-> <<"trust_score", "threshold", "result">>,
     equality |-> {"trust_score", "threshold", "result", "instance"},
     gates |-> <<BooleanPoly("selector", "result")>>]

\* IncomeRangeCircuit::configure with IncomeRangeChip::configure.
IncomeRangeChip_configure ==
    [advice |-> <<"income", "min_range", "max_range", "result">>,
     equality |-> {"income", "min_range", "max_range", "result", "instance"},
     gates |-> <<BooleanPoly("selector", "result")>>]

\* IdentityCircuit::configure with IdentityChip::configure.
IdentityChip_configure ==
    [advice |-> <<"identity_hash", "commitment", "result">>,
     equality |-> {"identity_hash", "commitment", "result", "instance"},
     gates |-> <<BooleanPoly("selector", "result")>>]

\* LoanHistoryCircuit::configure with LoanHistoryChip::configure.
LoanHistoryChip_configure ==
    [advice |-> <<"num_loans", "successful_repayments", "min_success_rate",
                  "success_rate", "result">>,
     equality |-> {"num_loans", "successful_repayments", "min_success_rate",
                   "success_rate", "result", "instance"},
     gates |-> <<BooleanPoly("selector", "result")>>]

\* MobileTrustScoreCircuit::configure: the columns and a selector are
\* allocated and the TrustScoreConfig is built directly; enable_equality
\* and create_gate are not called.
MobileTrustScoreCircuit_configure ==
    [advice |-> <<"trust_score", "threshold", "result">>,
     equality |-> {},
     gates |-> <<>>]

PredicateCircuits ==
    {"TrustScoreCircuit", "IncomeRangeCircuit", "IdentityCircuit", "LoanHistoryCircuit"}
CircuitTypes == PredicateCircuits \cup {"MobileTrustScoreCircuit"}

\* <C as Circuit>::configure for the circuit type C.
Configure(circuit) ==
    CASE circuit = "TrustScoreCircuit" -> TrustScoreChip_configure
      [] circuit = "IncomeRangeCircuit" -> IncomeRangeChip_configure
      [] circuit = "IdentityCircuit" -> IdentityChip_configure
      [] circuit = "LoanHistoryCircuit" -> LoanHistoryChip_configure
      [] circuit = "MobileTrustScoreCircuit" -> MobileTrustScoreCircuit_configure

\* The columns every synthesize ties together:
\* layouter.constrain_instance(result_cell.cell(), config.instance, 0).
SynthesizeCopies == {"result", "instance"}

\* An assignment of row 0: the result cell holds result, every other advice
\* cell holds other.
Cells(cs, other, result) ==
    [c \in {cs.advice[i] : i \in 1..Len(cs.advice)} |-> IF c = "result" THEN result ELSE other]

\* Whether a gate polynomial evaluates to zero on row 0, where every assign
\* operation enables the selector.
PolyIsZero(poly, cells) ==
    \E i \in 1..Len(poly.factors) : cells[poly.factors[i].column] = poly.factors[i].minus

\* MockProver::run followed by verify(), on an assignment of row 0 and an
\* instance value.  A copy constraint on a column without equality enabled
\* makes synthesize return Error::ColumnNotInPermutation; otherwise the
\* assignment is accepted when every gate polynomial is zero and the result
\* cell equals row 0 of the instance column.
MockProverVerify(cs, cells, instance) ==
    IF ~(SynthesizeCopies \subseteq cs.equality)
    THEN [error |-> "ColumnNotInPermutation", accepted |-> FALSE]
    ELSE [error |-> "",
          accepted |-> /\ \A g \in 1..Len(cs.gates) : PolyIsZero(cs.gates[g], cells)
                       /\ cells["result"] = instance]

\* ------------------------------------------------------------------ state
VARIABLES
    SETUP_PARAMS,     \* static mut Option<Params>: <<>> is None, <<p>> is Some(p)
    PROVING_KEY,      \* static mut Option<ProvingKey>
    VERIFYING_KEY,    \* static mut Option<VerifyingKey>
    init_completed,   \* whether some initialize_zk_system call has returned Ok(true)
    proofs,           \* the proof byte vectors generate_trust_score_proof has returned
    results,          \* the ProofResult structures returned and not yet freed
    last,             \* the last boundary call: its arguments and what it returned
    eval,             \* the last chip or utility evaluation: its inputs and outputs
    heap,             \* live allocations made by the flat boundary, counted by allocator
    threads           \* per thread: the boundary call it is executing and how far it got

vars == <<SETUP_PARAMS, PROVING_KEY, VERIFYING_KEY, init_completed, proofs, results, last, eval,
          heap, threads>>
globals == <<SETUP_PARAMS, PROVING_KEY, VERIFYING_KEY>>
lifecycle_vars == <<SETUP_PARAMS, PROVING_KEY, VERIFYING_KEY, init_completed, proofs, results, last,
                    heap, threads>>

None == <<>>
Some(x) == <<x>>

\* Values passed at the boundary (u32 in the managed functions, u64 in the
\* flat ones): around 0 and around the first byte boundary.
BoundaryVals == (0..Span) \cup ((ByteBase - Span)..(ByteBase + Span))

\* ---------------------------------------------------- circuit and backend
\* MobileTrustScoreCircuit::new(Some(trust_score), threshold), put where a
\* TrustScoreCircuit is expected.
MobileTrustScoreCircuit_new(trust_score, threshold) ==
    [shape |-> "MobileTrustScoreCircuit",
     trust_score |-> CircuitValue(trust_score), threshold |-> Known(FpFrom(U64(threshold)))]

\* TrustScoreCircuit::new(Some(trust_score), threshold).  shape names the
\* type, whose configure fixes the columns and gates.
TrustScoreCircuit_new(trust_score, threshold) ==
    [shape |-> "TrustScoreCircuit",
     trust_score |-> CircuitValue(trust_score), threshold |-> Known(FpFrom(U64(threshold)))]

\* A faulty variant of synthesize: the private score cell is the one tied
\* to the instance column.
synthesizeBindsScore(circuit) == circuit.trust_score

\* TrustScoreCircuit::synthesize: the result cell, which constrain_instance
\* ties to row 0 of the instance column.
synthesize(circuit) == assign_comparison(circuit.trust_score, circuit.threshold)

\* What MockProver::verify and a verifier accept: the gate holds on the
\* assigned row and the result cell equals the public instance.
Satisfied(result_cell, instance) ==
    IsKnown(result_cell) /\ BooleanGate(result_cell[1]) /\ result_cell[1] = instance

\* The bytes create_proof writes to the transcript.  They are opaque; what
\* decides their verification is the instance they were produced against
\* and the assignment they commit to.
create_proof(params, pk, circuit, public_input) ==
    [kind |-> "proof", k |-> params.k, shape |-> circuit.shape,
     instance |-> public_input, cell |-> synthesize(circuit)]

\* Byte vectors that are no proof.
EmptyBytes == [kind |-> "empty", k |-> 0, shape |-> "", instance |-> FpZero, cell |-> Unknown]
GarbageBytes == [kind |-> "garbage", k |-> 0, shape |-> "", instance |-> FpZero, cell |-> Unknown]

\* halo2's verify_proof(params, vk, strategy, instances, transcript).is_ok():
\* the bytes are a proof for this key, the instance is the one the proof was
\* produced against (prover and verifier both absorb the instance into the
\* transcript before any challenge is drawn), and the committed assignment
\* satisfies the gate and the copy constraint.  create_proof itself does not
\* check the assignment: an unsatisfied one yields bytes that fail here.
verify_proof(params, vk, public_input, proof_data) ==
    /\ proof_data.kind = "proof"
    /\ proof_data.k = params.k
    /\ proof_data.shape = vk.shape
    /\ proof_data.instance = public_input
    /\ Satisfied(proof_data.cell, proof_data.instance)

\* if b { Fp::one() } else { Fp::zero() }
BoolToFp(b) == IF b THEN FpOne ELSE FpZero

\* The expected public input the boundary computes from its integer arguments.
ExpectedPublicInput(trust_score, threshold) == BoolToFp(trust_score >= threshold)

\* A faulty variant of VerifyPublicInput: expected_result is not read.
VerifyPublicInputAlwaysOne(expected_result) == FpOne

\* The public input verify_trust_score_proof rebuilds from expected_result.
VerifyPublicInput(expected_result) == BoolToFp(expected_result)

\* ----------------------------------------------------------- call records
NoCall ==
    [op |-> "none", ret |-> "none", msg |-> "", value |-> FALSE,
     trust_score |-> 0, threshold |-> 0, expected_result |-> FALSE,
     proof |-> EmptyBytes, public_input |-> FpZero, cell |-> Unknown,
     buffer |-> [null |-> TRUE, bytes |-> "", len |-> 0], code |-> 0,
     deref |-> FALSE, params_gen |-> 0, key_gen |-> 0]

\* Live allocations: Box<ProofResult>, libc::malloc buffers, CString buffers.
EmptyHeap == [box |-> 0, malloc |-> 0, cstring |-> 0]

\* The threads of the host process, and a thread that is in no boundary call.
\* gen is the identity of the parameters and keys an initialize execution
\* built; params and key are the copies of the statics a prove or verify
\* execution has read so far.
Threads == 1..NumThreads
IdleThread == [pc |-> "idle", op |-> "none", gen |-> 0, params |-> <<>>]

NoEval ==
    [op |-> "none", x |-> 0, y |-> 0, z |-> 0, a |-> FpZero, b |-> FpZero,
     n |-> U64(0), s |-> U64(0), m |-> U64(0), from_u64 |-> FALSE,
     known |-> FALSE, known2 |-> FALSE, overflow_checks |-> FALSE, done |-> FALSE,
     panicked |-> FALSE, rate |-> Unknown, result |-> Unknown, ret |-> FALSE,
     d1 |-> <<>>, d2 |-> <<>>, circuit |-> "", instance |-> FpZero,
     error |-> "", accepted |-> FALSE]

Init ==
    /\ SETUP_PARAMS = None
    /\ PROVING_KEY = None
    /\ VERIFYING_KEY = None
    /\ init_completed = FALSE
    /\ proofs = {}
    /\ results = <<>>
    /\ last = NoCall
    /\ eval = NoEval
    /\ heap = EmptyHeap
    /\ threads = [t \in Threads |-> IdleThread]

\* ------------------------------------------------- the managed boundary
\* Outcomes of keygen_vk / keygen_pk inside initialize_zk_system.
KeygenOutcomes == {"ok", "vk_err", "pk_err"}

\* Each execution of initialize_zk_system builds new parameters and keys.
\* Identities distinguish the objects of one execution from those of
\* another; an identity is reused only when no static and no running
\* execution holds it.
Gens == 0..(NumThreads + 2)
GenOf(opt) == IF opt = None THEN {} ELSE {opt[1].gen}
StoredGens == GenOf(SETUP_PARAMS) \cup GenOf(PROVING_KEY) \cup GenOf(VERIFYING_KEY)
RunningGens == {threads[t].gen : t \in {u \in Threads : threads[u].op = "initialize_zk_system"}}
FreshGen == CHOOSE g \in Gens : g \notin StoredGens \cup RunningGens

\* Params::new(k), and keygen_pk / keygen_vk for the empty TrustScoreCircuit.
MakeParams(gen) == [k |-> CircuitK, gen |-> gen]
MakeKey(gen) == [k |-> CircuitK, shape |-> "TrustScoreCircuit", gen |-> gen]

\* The three assignments that end a successful initialize_zk_system.
FreshGlobals(gen) == <<Some(MakeParams(gen)), Some(MakeKey(gen)), Some(MakeKey(gen))>>

\* A faulty variant of InitGlobals: the parameters are stored before the
\* keys are generated, so a failed key generation leaves them behind.
InitGlobalsParamsFirst(outcome) ==
    IF outcome = "ok"
    THEN FreshGlobals(FreshGen)
    ELSE <<Some(MakeParams(FreshGen)), PROVING_KEY, VERIFYING_KEY>>

\* A faulty variant of InitGlobals: the statics are reset on entry, so a
\* failed call leaves them empty.
InitGlobalsResetFirst(outcome) ==
    IF outcome = "ok"
    THEN FreshGlobals(FreshGen)
    ELSE <<None, None, None>>

\* A faulty variant of InitGlobals: the verifying key is stored as soon as
\* it is generated, before the proving key is.
InitGlobalsVkFirst(outcome) ==
    IF outcome = "ok"
    THEN FreshGlobals(FreshGen)
    ELSE IF outcome = "pk_err"
    THEN <<SETUP_PARAMS, PROVING_KEY, Some(MakeKey(FreshGen))>>
    ELSE globals

\* A faulty variant of InitGlobals: a call made when the parameters are
\* already stored builds them one row exponent larger.
InitGlobalsGrowK(outcome) ==
    IF outcome = "ok"
    THEN IF SETUP_PARAMS = None
         THEN FreshGlobals(FreshGen)
         ELSE <<Some([MakeParams(FreshGen) EXCEPT !.k = CircuitK + 1]),
                Some([MakeKey(FreshGen) EXCEPT !.k = CircuitK + 1]),
                Some([MakeKey(FreshGen) EXCEPT !.k = CircuitK + 1])>>
    ELSE globals

\* A faulty variant of InitGlobals: a call made when the keys are already
\* stored builds them for another circuit.
InitGlobalsOtherShape(outcome) ==
    IF outcome = "ok"
    THEN IF SETUP_PARAMS = None
         THEN FreshGlobals(FreshGen)
         ELSE <<Some(MakeParams(FreshGen)),
                Some([MakeKey(FreshGen) EXCEPT !.shape = "IncomeRangeCircuit"]),
                Some([MakeKey(FreshGen) EXCEPT !.shape = "IncomeRangeCircuit"])>>
    ELSE globals

\* A faulty variant of InitGlobals: the verifying key is not stored.
InitGlobalsNoVk(outcome) ==
    IF outcome = "ok"
    THEN <<Some(MakeParams(FreshGen)), Some(MakeKey(FreshGen)), VERIFYING_KEY>>
    ELSE globals

\* What initialize_zk_system writes to the three statics for a keygen outcome:
\* nothing unless both keys were generated.
InitGlobals(outcome) ==
    IF outcome = "ok"
    THEN FreshGlobals(FreshGen)
    ELSE globals

initialize_zk_system ==
    \E outcome \in KeygenOutcomes :
        /\ SETUP_PARAMS' = InitGlobals(outcome)[1]
        /\ PROVING_KEY' = InitGlobals(outcome)[2]
        /\ VERIFYING_KEY' = InitGlobals(outcome)[3]
        /\ init_completed' = (init_completed \/ outcome = "ok")
        /\ last' = [NoCall EXCEPT !.op = "initialize_zk_system",
                                  !.ret = IF outcome = "ok" THEN "ok" ELSE "err",
                                  !.msg = IF outcome = "ok" THEN ""
                                          ELSE IF outcome = "vk_err" THEN "Failed to generate VK"
                                          ELSE "Failed to generate PK",
                                  !.value = (outcome = "ok")]
        /\ UNCHANGED <<proofs, results, eval, heap, threads>>

\* The error, if any, with which generate_trust_score_proof returns before
\* building the circuit.
GenerateGuard ==
    IF SETUP_PARAMS = None THEN "ZK system not initialized"
    ELSE IF PROVING_KEY = None THEN "Proving key not available"
    ELSE ""

generate_trust_score_proof ==
    \E trust_score \in BoundaryVals, threshold \in BoundaryVals :
        LET call == [NoCall EXCEPT !.op = "generate_trust_score_proof",
                                   !.trust_score = trust_score, !.threshold = threshold]
        IN IF GenerateGuard # ""
           THEN /\ last' = [call EXCEPT !.ret = "err", !.msg = GenerateGuard]
                /\ UNCHANGED <<globals, init_completed, proofs, results, eval, heap, threads>>
           ELSE LET circuit == TrustScoreCircuit_new(Some(U64(trust_score)), threshold)
                    public_input == ExpectedPublicInput(trust_score, threshold)
                    proof == create_proof(SETUP_PARAMS[1], PROVING_KEY[1], circuit, public_input)
                IN /\ proofs' = proofs \cup {proof}
                   /\ last' = [call EXCEPT !.ret = "ok", !.proof = proof,
                                           !.public_input = public_input, !.cell = proof.cell]
                   /\ UNCHANGED <<globals, init_completed, results, eval, heap, threads>>

\* A faulty variant of VerifyGuard: the test on the verifying key is inverted.
VerifyGuardKeyInverted ==
    IF SETUP_PARAMS = None THEN "ZK system not initialized"
    ELSE IF VERIFYING_KEY # None THEN "Verifying key not available"
    ELSE ""

\* The error, if any, with which verify_trust_score_proof returns before
\* reading the proof.
VerifyGuard ==
    IF SETUP_PARAMS = None THEN "ZK system not initialized"
    ELSE IF VERIFYING_KEY = None THEN "Verifying key not available"
    ELSE ""

\* What verify_trust_score_proof returns in the current state: Err(msg) from
\* the guards, else Ok(verify_proof(..).is_ok()).  threshold is not read.
VerifyCall(proof_data, expected_result) ==
    IF VerifyGuard # ""
    THEN [ret |-> "err", msg |-> VerifyGuard, value |-> FALSE, public_input |-> FpZero]
    ELSE [ret |-> "ok", msg |-> "",
          value |-> verify_proof(SETUP_PARAMS[1], VERIFYING_KEY[1],
                                 VerifyPublicInput(expected_result), proof_data),
          public_input |-> VerifyPublicInput(expected_result)]

verify_trust_score_proof ==
    \E proof_data \in proofs \cup {EmptyBytes, GarbageBytes},
       threshold \in BoundaryVals, expected_result \in BOOLEAN :
        LET call == [NoCall EXCEPT !.op = "verify_trust_score_proof",
                                   !.proof = proof_data, !.threshold = threshold,
                                   !.expected_result = expected_result]
            returned == VerifyCall(proof_data, expected_result)
        IN /\ last' = [call EXCEPT !.ret = returned.ret, !.msg = returned.msg,
                                   !.public_input = returned.public_input,
                                   !.value = returned.value]
           /\ UNCHANGED <<globals, init_completed, proofs, results, eval, heap, threads>>

\* test_trust_score_circuit: the mock prover on the circuit and the expected
\* public input; Ok(true) when it is satisfied, Ok(false) when not.
test_trust_score_circuit ==
    \E trust_score \in BoundaryVals, threshold \in BoundaryVals :
        LET circuit == TrustScoreCircuit_new(Some(U64(trust_score)), threshold)
            expected_result == ExpectedPublicInput(trust_score, threshold)
            cell == synthesize(circuit)
        IN /\ last' = [NoCall EXCEPT !.op = "test_trust_score_circuit", !.ret = "ok",
                                     !.trust_score = trust_score, !.threshold = threshold,
                                     !.public_input = expected_result, !.cell = cell,
                                     !.value = Satisfied(cell, expected_result)]
           /\ UNCHANGED <<globals, init_completed, proofs, results, eval, heap, threads>>

\* ---------------------------------------------------- the flat boundary
NullPtr == [null |-> TRUE, bytes |-> "", len |-> 0]
Buffer(bytes, len) == [null |-> FALSE, bytes |-> bytes, len |-> len]

\* The ProofResult generate_trust_proof returns, given whether the mock
\* prover was satisfied and whether malloc returned a buffer.  outcome is
\* no field of the structure: it records the expected_result the call
\* recomputed.
MakeProofResult(satisfied, malloc_ok, outcome) ==
    IF satisfied
    THEN [success |-> TRUE, outcome |-> outcome,
          proof_data |-> IF malloc_ok THEN Buffer("mock_proof_data", MockProofLen) ELSE NullPtr,
          proof_len |-> MockProofLen,
          error_message |-> NullPtr]
    ELSE [success |-> FALSE, outcome |-> outcome, proof_data |-> NullPtr, proof_len |-> 0,
          error_message |-> Buffer("Circuit verification failed", 0)]

\* What a ProofResult owns: the Box it lives in, the malloc buffer behind
\* proof_data and the CString behind error_message, when they are not null.
Owned(result) ==
    [box |-> 1,
     malloc |-> IF result.proof_data.null THEN 0 ELSE 1,
     cstring |-> IF result.error_message.null THEN 0 ELSE 1]

HeapPlus(h, o) ==
    [box |-> h.box + o.box, malloc |-> h.malloc + o.malloc, cstring |-> h.cstring + o.cstring]
HeapMinus(h, o) ==
    [box |-> h.box - o.box, malloc |-> h.malloc - o.malloc, cstring |-> h.cstring - o.cstring]

\* A faulty variant of Released: the error message is not retaken.
ReleasedKeepMessage(result) == [Owned(result) EXCEPT !.cstring = 0]

\* What free_proof_result releases for a non-null result: Box::from_raw
\* drops the structure, libc::free the proof buffer if it is not null,
\* CString::from_raw the error message if it is not null.
Released(result) ==
    [box |-> 1,
     malloc |-> IF ~result.proof_data.null THEN 1 ELSE 0,
     cstring |-> IF ~result.error_message.null THEN 1 ELSE 0]

generate_trust_proof ==
    /\ Len(results) < MaxResults
    /\ \E trust_score \in BoundaryVals, threshold \in BoundaryVals, malloc_ok \in BOOLEAN :
        LET circuit == TrustScoreCircuit_new(Some(U64(trust_score)), threshold)
            expected_result == ExpectedPublicInput(trust_score, threshold)
            cell == synthesize(circuit)
            satisfied == Satisfied(cell, expected_result)
            result == MakeProofResult(satisfied, satisfied /\ malloc_ok, expected_result)
        IN /\ results' = Append(results, result)
           /\ heap' = HeapPlus(heap, Owned(result))
           /\ last' = [NoCall EXCEPT !.op = "generate_trust_proof", !.ret = "ok",
                                     !.trust_score = trust_score, !.threshold = threshold,
                                     !.public_input = expected_result, !.cell = cell,
                                     !.value = result.success, !.buffer = result.proof_data]
           /\ UNCHANGED <<globals, init_completed, proofs, eval, threads>>

\* A faulty variant of VerifyTrustProofCode: the bytes are accepted only
\* for one threshold.
VerifyTrustProofCodeForThreshold(proof_data, proof_len, threshold, expected_result) ==
    IF proof_data.null \/ proof_len = 0 THEN 0
    ELSE IF proof_len = MockProofLen /\ proof_data.bytes = "mock_proof_data" /\ threshold = 0
    THEN 1
    ELSE 0

\* The c_int verify_trust_proof returns; _threshold and _expected_result
\* are not read.
VerifyTrustProofCode(proof_data, proof_len, threshold, expected_result) ==
    IF proof_data.null \/ proof_len = 0 THEN 0
    ELSE IF proof_len = MockProofLen /\ proof_data.bytes = "mock_proof_data" THEN 1
    ELSE 0

\* Buffers a caller can pass to verify_trust_proof: one a held result owns,
\* a null pointer, or bytes of its own (among them a copy of a proof).
CallerBuffers ==
    {results[i].proof_data : i \in 1..Len(results)}
        \cup {NullPtr, Buffer("mock_proof_dat4", MockProofLen), Buffer("short", 5),
              Buffer("mock_proof_data", MockProofLen)}

\* The lengths a caller passes with a buffer: zero, the buffer's length,
\* and with a null pointer also the length of a proof.
CallerLens(proof_data) == {0} \cup (IF proof_data.null THEN {MockProofLen} ELSE {proof_data.len})

\* A faulty variant of VerifyTrustProofReads: only the length is tested
\* before the slice is built.
VerifyTrustProofReadsLenOnly(proof_data, proof_len) == proof_len = MockProofLen

\* Whether verify_trust_proof builds a slice over proof_data and reads it:
\* after the null and zero-length test, when the length is that of a proof.
VerifyTrustProofReads(proof_data, proof_len) ==
    ~(proof_data.null \/ proof_len = 0) /\ proof_len = MockProofLen

verify_trust_proof ==
    \E proof_data \in CallerBuffers, threshold \in BoundaryVals, expected_result \in BOOLEAN :
      \E proof_len \in CallerLens(proof_data) :
           /\ last' = [NoCall EXCEPT !.op = "verify_trust_proof", !.ret = "ok",
                                     !.deref = VerifyTrustProofReads(proof_data, proof_len),
                                     !.buffer = [proof_data EXCEPT !.len = proof_len],
                                     !.threshold = threshold,
                                     !.expected_result = expected_result,
                                     !.code = VerifyTrustProofCode(proof_data, proof_len,
                                                                   threshold, expected_result)]
           /\ UNCHANGED <<globals, init_completed, proofs, results, eval, heap, threads>>

\* free_proof_result on a held result (which the caller then forgets) or on
\* a null pointer.
free_proof_result ==
    \E i \in 0..Len(results) :
        /\ results' = IF i = 0 THEN results
                      ELSE SubSeq(results, 1, i - 1) \o SubSeq(results, i + 1, Len(results))
        /\ heap' = IF i = 0 THEN heap ELSE HeapMinus(heap, Released(results[i]))
        /\ last' = [NoCall EXCEPT !.op = "free_proof_result", !.ret = "ok", !.code = i]
        /\ UNCHANGED <<globals, init_completed, proofs, eval, threads>>

\* The managed (napi) boundary.
Next ==
    \/ initialize_zk_system
    \/ generate_trust_score_proof
    \/ verify_trust_score_proof
    \/ test_trust_score_circuit

Spec == Init /\ [][Next]_vars

\* The flat (extern "C") boundary, beside initialization.  Its functions
\* read and write none of the three statics.
NextFlat ==
    \/ initialize_zk_system
    \/ verify_trust_score_proof
    \/ generate_trust_proof
    \/ verify_trust_proof
    \/ free_proof_result

SpecFlat == Init /\ [][NextFlat]_vars

\* Proving at the managed boundary and verifying at both boundaries.
NextVerify ==
    \/ initialize_zk_system
    \/ generate_trust_score_proof
    \/ verify_trust_score_proof
    \/ verify_trust_proof

SpecVerify == Init /\ [][NextVerify]_vars

\* ------------------------------------------- the managed boundary, threaded
\* The three statics are `static mut` and every function body is one
\* `unsafe` block: no lock, Once or atomic orders the accesses of two
\* threads.  Each execution is split at its accesses to the statics.  The
\* arguments of a prove or verify call play no part before the second
\* access, so they are drawn there.
ThreadVals == 0..Span

Enter(t, op, pc) == [threads EXCEPT ![t] = [IdleThread EXCEPT !.op = op, !.pc = pc]]
Return(t) == [threads EXCEPT ![t] = IdleThread]

\* initialize_zk_system up to the end of key generation: an error returns,
\* success leaves params, vk and pk in locals.
InitKeygen(t) ==
    /\ threads[t].pc = "idle"
    /\ \E outcome \in KeygenOutcomes :
        IF outcome = "ok"
        THEN /\ threads' = [Enter(t, "initialize_zk_system", "write_params")
                               EXCEPT ![t].gen = FreshGen]
             /\ UNCHANGED <<globals, init_completed, proofs, results, last, eval, heap>>
        ELSE /\ last' = [NoCall EXCEPT !.op = "initialize_zk_system", !.ret = "err",
                                       !.msg = IF outcome = "vk_err"
                                               THEN "Failed to generate VK"
                                               ELSE "Failed to generate PK"]
             /\ UNCHANGED <<globals, init_completed, proofs, results, eval, heap, threads>>

\* SETUP_PARAMS = Some(params);
InitWriteParams(t) ==
    /\ threads[t].pc = "write_params"
    /\ SETUP_PARAMS' = FreshGlobals(threads[t].gen)[1]
    /\ threads' = [threads EXCEPT ![t].pc = "write_pk"]
    /\ UNCHANGED <<PROVING_KEY, VERIFYING_KEY, init_completed, proofs, results, last, eval, heap>>

\* PROVING_KEY = Some(pk);
InitWritePk(t) ==
    /\ threads[t].pc = "write_pk"
    /\ PROVING_KEY' = FreshGlobals(threads[t].gen)[2]
    /\ threads' = [threads EXCEPT ![t].pc = "write_vk"]
    /\ UNCHANGED <<SETUP_PARAMS, VERIFYING_KEY, init_completed, proofs, results, last, eval, heap>>

\* VERIFYING_KEY = Some(vk); Ok(true)
InitWriteVk(t) ==
    /\ threads[t].pc = "write_vk"
    /\ VERIFYING_KEY' = FreshGlobals(threads[t].gen)[3]
    /\ init_completed' = TRUE
    /\ last' = [NoCall EXCEPT !.op = "initialize_zk_system", !.ret = "ok", !.value = TRUE,
                              !.params_gen = threads[t].gen, !.key_gen = threads[t].gen]
    /\ threads' = Return(t)
    /\ UNCHANGED <<SETUP_PARAMS, PROVING_KEY, proofs, results, eval, heap>>

\* The first access of generate_trust_score_proof (op) or
\* verify_trust_score_proof: SETUP_PARAMS.as_ref().ok_or_else(..)?
ReadParams(t, op) ==
    /\ threads[t].pc = "idle"
    /\ IF SETUP_PARAMS = None
       THEN /\ last' = [NoCall EXCEPT !.op = op, !.ret = "err",
                                      !.msg = "ZK system not initialized"]
            /\ UNCHANGED threads
       ELSE /\ threads' = [Enter(t, op, "read_key") EXCEPT ![t].params = SETUP_PARAMS]
            /\ UNCHANGED last
    /\ UNCHANGED <<globals, init_completed, proofs, results, eval, heap>>

\* The reference taken by as_ref() points into the static.  When another
\* execution has assigned the static since, the reference dangles: what is
\* read through it is the object seen at the first access or the one stored
\* now.
ParamsSeen(t) == {threads[t].params[1], SETUP_PARAMS[1]}

\* generate_trust_score_proof from PROVING_KEY.as_ref().ok_or_else(..)? on.
ProveReadKey(t) ==
    /\ threads[t].pc = "read_key" /\ threads[t].op = "generate_trust_score_proof"
    /\ \E trust_score \in ThreadVals, threshold \in ThreadVals, params \in ParamsSeen(t) :
        LET call == [NoCall EXCEPT !.op = "generate_trust_score_proof",
                                   !.trust_score = trust_score, !.threshold = threshold,
                                   !.params_gen = params.gen]
        IN IF PROVING_KEY = None
           THEN /\ last' = [call EXCEPT !.ret = "err", !.msg = "Proving key not available"]
                /\ UNCHANGED proofs
           ELSE LET circuit == TrustScoreCircuit_new(Some(U64(trust_score)), threshold)
                    public_input == ExpectedPublicInput(trust_score, threshold)
                    proof == create_proof(params, PROVING_KEY[1], circuit, public_input)
                IN /\ proofs' = proofs \cup {proof}
                   /\ last' = [call EXCEPT !.ret = "ok", !.proof = proof,
                                           !.public_input = public_input, !.cell = proof.cell,
                                           !.key_gen = PROVING_KEY[1].gen]
    /\ threads' = Return(t)
    /\ UNCHANGED <<globals, init_completed, results, eval, heap>>

\* verify_trust_score_proof from VERIFYING_KEY.as_ref().ok_or_else(..)? on.
VerifyReadKey(t) ==
    /\ threads[t].pc = "read_key" /\ threads[t].op = "verify_trust_score_proof"
    /\ \E proof_data \in proofs \cup {EmptyBytes}, expected_result \in BOOLEAN,
          params \in ParamsSeen(t) :
        LET call == [NoCall EXCEPT !.op = "verify_trust_score_proof",
                                   !.proof = proof_data, !.expected_result = expected_result,
                                   !.params_gen = params.gen]
        IN IF VERIFYING_KEY = None
           THEN last' = [call EXCEPT !.ret = "err", !.msg = "Verifying key not available"]
           ELSE LET public_input == VerifyPublicInput(expected_result)
                IN last' = [call EXCEPT !.ret = "ok", !.public_input = public_input,
                                        !.key_gen = VERIFYING_KEY[1].gen,
                                        !.value = verify_proof(params, VERIFYING_KEY[1],
                                                               public_input, proof_data)]
    /\ threads' = Return(t)
    /\ UNCHANGED <<globals, init_completed, proofs, results, eval, heap>>

NextThreads ==
    \E t \in Threads :
        \/ InitKeygen(t)
        \/ InitWriteParams(t)
        \/ InitWritePk(t)
        \/ InitWriteVk(t)
        \/ ReadParams(t, "generate_trust_score_proof")
        \/ ReadParams(t, "verify_trust_score_proof")
        \/ ProveReadKey(t)
        \/ VerifyReadKey(t)

SpecThreads == Init /\ [][NextThreads]_vars

\* ------------------------------------------------ chip evaluations
\* u64 inputs of the chips: the boundary values and the literals of the
\* crate's tests.
ChipVals == BoundaryVals \cup {69, 70, 30000, 80000, 80001}

\* A witness is Some(v) or None.
OptVals(S) == {None} \cup {Some(U64(v)) : v \in S}
OptInt(opt) == IF opt = None THEN 0 ELSE LeToInt(opt[1])
\* The Option<u64> an evaluation record stands for.
OptOf(known, v) == IF known THEN Some(v) ELSE None

\* Field elements that are no image of a u64: 2^64 and 2^64 + 1.
WideFields == {Zeros(U64Bytes) \o <<1>> \o Zeros(ReprBytes - U64Bytes - 1),
               <<1>> \o Zeros(U64Bytes - 1) \o <<1>> \o Zeros(ReprBytes - U64Bytes - 1)}
FieldVals == {FpFrom(U64(v)) : v \in BoundaryVals} \cup WideFields

\* Loan counts (the divisor stays small), repayment counts (up to the top
\* of the u64 range) and minimum rates.
LoanCounts == (0..Span) \cup {5, 10}
BigU64s == {Zeros(U64Bytes - 1) \o <<16>>, [i \in 1..U64Bytes |-> ByteBase - 1]}
RepaymentVals == {U64(v) : v \in (0..Span) \cup {5, 8, 9, 10}} \cup BigU64s
MinRateVals == {U64(v) : v \in (0..Span) \cup {5000, 8000, 8001, 9000, 10000}} \cup BigU64s

\* The calls the chip specification starts from: an operation and its inputs.
TrustScoreInputs ==
    {[NoEval EXCEPT !.op = "assign_comparison", !.known = (t # None),
                    !.x = OptInt(t), !.y = th] :
        t \in OptVals(ChipVals), th \in ChipVals}

IncomeRangeInputs ==
    {[NoEval EXCEPT !.op = "assign_range_check", !.known = (i # None),
                    !.x = OptInt(i), !.y = mn, !.z = mx] :
        i \in OptVals(ChipVals), mn \in ChipVals, mx \in ChipVals}

IdentityInputs ==
    {[NoEval EXCEPT !.op = "assign_identity_verification", !.from_u64 = TRUE,
                    !.known = (h # None), !.x = OptInt(h), !.y = c] :
        h \in OptVals(ChipVals), c \in ChipVals}
    \cup
    {[NoEval EXCEPT !.op = "assign_identity_verification", !.from_u64 = FALSE,
                    !.known = TRUE, !.a = h, !.b = c] :
        h \in FieldVals, c \in FieldVals}

LoanHistoryInputs ==
    {[NoEval EXCEPT !.op = "assign_loan_history_verification",
                    !.known = kn, !.known2 = ks, !.n = U64(n), !.s = r, !.m = m,
                    !.overflow_checks = oc] :
        kn \in BOOLEAN, ks \in BOOLEAN, n \in LoanCounts, r \in RepaymentVals,
        m \in MinRateVals, oc \in BOOLEAN}

MeetsThresholdInputs ==
    {[NoEval EXCEPT !.op = "meets_success_rate_threshold",
                    !.known = TRUE, !.known2 = TRUE, !.n = U64(n), !.s = r, !.m = m,
                    !.overflow_checks = oc] :
        n \in LoanCounts, r \in RepaymentVals, m \in MinRateVals, oc \in BOOLEAN}

\* Identity data: byte sequences of up to MaxDataLen bytes over a few byte
\* values; nonces at both ends of the u64 range.
DataBytes == {0, 1, HashMultiplier, ByteBase - 1}
RECURSIVE DataOfLen(_)
DataOfLen(n) ==
    IF n = 0 THEN {<<>>} ELSE {<<b>> \o d : b \in DataBytes, d \in DataOfLen(n - 1)}
DataVals == UNION {DataOfLen(n) : n \in 0..MaxDataLen}
NonceVals == {U64(0), U64(1), [i \in 1..U64Bytes |-> ByteBase - 1]}

CommitmentInputs ==
    {[NoEval EXCEPT !.op = "verify_commitment", !.known = TRUE,
                    !.d1 = d1, !.d2 = d2, !.n = n1, !.s = n2] :
        d1 \in DataVals, d2 \in DataVals, n1 \in NonceVals, n2 \in NonceVals}

\* Values held by the cells of row 0 and by the instance.
CellVals == {FpFrom(U64(v)) : v \in BoundaryVals}

MockProverInputs ==
    {[NoEval EXCEPT !.op = "MockProver", !.known = TRUE, !.circuit = c,
                    !.a = other, !.b = result, !.instance = instance] :
        c \in CircuitTypes, other \in CellVals, result \in CellVals, instance \in CellVals}

InitChips ==
    /\ SETUP_PARAMS = None
    /\ PROVING_KEY = None
    /\ VERIFYING_KEY = None
    /\ init_completed = FALSE
    /\ proofs = {}
    /\ results = <<>>
    /\ last = NoCall
    /\ heap = EmptyHeap
    /\ threads = [t \in Threads |-> IdleThread]
    /\ eval \in TrustScoreInputs \cup IncomeRangeInputs \cup IdentityInputs
                  \cup LoanHistoryInputs \cup MeetsThresholdInputs
                  \cup CommitmentInputs \cup MockProverInputs

\* TrustScoreCircuit::new(..) synthesized: the result cell.
EvalTrustScore ==
    /\ eval.op = "assign_comparison" /\ ~eval.done
    /\ eval' = [eval EXCEPT !.done = TRUE,
                            !.result = synthesize(TrustScoreCircuit_new(
                                           OptOf(eval.known, U64(eval.x)), eval.y))]
    /\ UNCHANGED lifecycle_vars

\* IncomeRangeCircuit::new(..) synthesized: the result cell.
EvalIncomeRange ==
    /\ eval.op = "assign_range_check" /\ ~eval.done
    /\ eval' = [eval EXCEPT !.done = TRUE,
                            !.result = assign_range_check(
                                           CircuitValue(OptOf(eval.known, U64(eval.x))),
                                           Known(FpFrom(U64(eval.y))),
                                           Known(FpFrom(U64(eval.z))))]
    /\ UNCHANGED lifecycle_vars

\* IdentityCircuit::new (u64 arguments) or IdentityCircuit::new_with_fields,
\* synthesized: the cells assigned.
EvalIdentity ==
    /\ eval.op = "assign_identity_verification" /\ ~eval.done
    /\ LET identity_hash == IF eval.from_u64
                            THEN CircuitValue(OptOf(eval.known, U64(eval.x)))
                            ELSE Known(eval.a)
           commitment == IF eval.from_u64 THEN Known(FpFrom(U64(eval.y))) ELSE Known(eval.b)
       IN eval' = [eval EXCEPT !.done = TRUE,
                               !.a = IF IsKnown(identity_hash) THEN identity_hash[1] ELSE FpZero,
                               !.b = commitment[1],
                               !.result = assign_identity_verification(identity_hash, commitment)]
    /\ UNCHANGED lifecycle_vars

\* LoanHistoryCircuit::new(..) synthesized: the rate cell and the result cell.
EvalLoanHistory ==
    /\ eval.op = "assign_loan_history_verification" /\ ~eval.done
    /\ LET out == assign_loan_history_verification(
                      CircuitValue(OptOf(eval.known, eval.n)),
                      CircuitValue(OptOf(eval.known2, eval.s)),
                      Known(FpFrom(eval.m)), eval.overflow_checks)
       IN eval' = [eval EXCEPT !.done = TRUE, !.panicked = out.panicked,
                               !.rate = out.success_rate, !.result = out.result]
    /\ UNCHANGED lifecycle_vars

EvalMeetsThreshold ==
    /\ eval.op = "meets_success_rate_threshold" /\ ~eval.done
    /\ LET out == meets_success_rate_threshold(eval.n, eval.s, eval.m, eval.overflow_checks)
           rate == calculate_success_rate(eval.n, eval.s, eval.overflow_checks)
       IN eval' = [eval EXCEPT !.done = TRUE, !.panicked = out.panicked,
                               !.rate = IF rate.panicked THEN Unknown ELSE Known(FpFrom(rate.rate)),
                               !.ret = out.ret]
    /\ UNCHANGED lifecycle_vars

\* commitment = create_commitment(d1, n), then
\* verify_commitment(d2, s, commitment).
EvalCommitment ==
    /\ eval.op = "verify_commitment" /\ ~eval.done
    /\ LET commitment == create_commitment(eval.d1, eval.n)
       IN eval' = [eval EXCEPT !.done = TRUE, !.m = commitment,
                               !.ret = verify_commitment(eval.d2, eval.s, commitment)]
    /\ UNCHANGED lifecycle_vars

\* The mock prover on a circuit type's constraint system and an assignment.
EvalMockProver ==
    /\ eval.op = "MockProver" /\ ~eval.done
    /\ LET cs == Configure(eval.circuit)
           out == MockProverVerify(cs, Cells(cs, eval.a, eval.b), eval.instance)
       IN eval' = [eval EXCEPT !.done = TRUE, !.error = out.error, !.accepted = out.accepted]
    /\ UNCHANGED lifecycle_vars

NextChips ==
    \/ EvalCommitment
    \/ EvalMockProver
    \/ EvalTrustScore
    \/ EvalIncomeRange
    \/ EvalIdentity
    \/ EvalLoanHistory
    \/ EvalMeetsThreshold

SpecChips == InitChips /\ [][NextChips]_vars

\* ================================================================ claims
Initialized == SETUP_PARAMS # None /\ PROVING_KEY # None /\ VERIFYING_KEY # None

\* C1: a generate_trust_score_proof or verify_trust_score_proof call made
\* while no initialize_zk_system call has completed successfully returns
\* the not-initialized error, produces no proof and leaves the three
\* statics unchanged.
C1_NotInitializedError ==
    [][(~init_completed
        /\ last'.op \in {"generate_trust_score_proof", "verify_trust_score_proof"})
       => /\ last'.ret = "err"
          /\ last'.msg = "ZK system not initialized"
          /\ SETUP_PARAMS' = SETUP_PARAMS
          /\ PROVING_KEY' = PROVING_KEY
          /\ VERIFYING_KEY' = VERIFYING_KEY
          /\ proofs' = proofs]_vars

\* A prove call was refused after a failed initialization attempt or before any.
C1_Witness ==
    /\ ~init_completed
    /\ last.op = "generate_trust_score_proof"
    /\ last.ret = "err"
    /\ proofs = {}

\* C2: once initialized, a proof generated for trust_score >= threshold
\* (public instance 1) is accepted by verify_trust_score_proof with
\* expected_result = true.
C2_Completeness ==
    (/\ last.op = "verify_trust_score_proof"
     /\ last.ret = "ok"
     /\ last.proof \in proofs
     /\ last.proof.instance = FpOne
     /\ last.expected_result)
    => last.value

\* C3: the public boolean the boundary recomputes by integer comparison
\* equals the value assign_comparison writes to the result cell.
C3_RecomputationAgrees ==
    (/\ last.op \in {"generate_trust_score_proof", "test_trust_score_circuit"}
     /\ last.ret = "ok")
    => last.cell = Known(last.public_input)

\* C4: verify_trust_score_proof on a generated proof, with an
\* expected_result that differs from the boolean the proof's public instance
\* was built from, returns false.
C4_MismatchRejected ==
    (/\ last.op = "verify_trust_score_proof"
     /\ last.ret = "ok"
     /\ last.proof \in proofs
     /\ BoolToFp(last.expected_result) # last.proof.instance)
    => last.value = FALSE

\* A generated proof was verified against the other boolean, and refused.
C4_Witness ==
    /\ last.op = "verify_trust_score_proof"
    /\ last.ret = "ok"
    /\ last.proof \in proofs
    /\ Satisfied(last.proof.cell, last.proof.instance)
    /\ BoolToFp(last.expected_result) # last.proof.instance
    /\ last.value = FALSE

\* C5: verify_trust_proof on the buffer of a successful generate_trust_proof
\* result, with an expected_result that disagrees with the outcome that
\* call recomputed, returns 0.
C5_FlatMismatchRejected ==
    (/\ last.op = "verify_trust_proof"
     /\ \E i \in 1..Len(results) :
            /\ results[i].success
            /\ ~results[i].proof_data.null
            /\ last.buffer = results[i].proof_data
            /\ BoolToFp(last.expected_result) # results[i].outcome)
    => last.code = 0

\* C6: the result cell of assign_comparison is 1 exactly when
\* score >= threshold as integers.
C6_ThresholdComparison ==
    (eval.op = "assign_comparison" /\ eval.done /\ eval.known)
    => eval.result = Known(BoolToFp(eval.x >= eval.y))

\* C7: the result cell of assign_range_check is 1 exactly when
\* min <= value <= max as integers.
C7_RangeContainment ==
    (eval.op = "assign_range_check" /\ eval.done /\ eval.known)
    => eval.result = Known(BoolToFp(eval.y <= eval.x /\ eval.x <= eval.z))

\* floor(successCount * 10000 / count) over the integers (ten bytes), 0 for
\* count = 0, and its comparison with minRatio.
IdealRate(s, n) ==
    IF n = U64(0) THEN Zeros(U64Bytes + 2) ELSE DivLe(MulWide(s, RateScale), LeToInt(n))
IdealMeets(n, s, m) == NumCmp(IdealRate(s, n), m \o Zeros(2)) >= 0

\* C8: the result cell of assign_loan_history_verification is 1 exactly when
\* floor(successCount * 10000 / count) >= minRatio (rate 0 for count = 0),
\* and utils::meets_success_rate_threshold returns the same value.
C8_RatioThreshold ==
    /\ (eval.op = "assign_loan_history_verification" /\ eval.done
        /\ eval.known /\ eval.known2)
       => /\ ~eval.panicked
          /\ eval.result = Known(BoolToFp(IdealMeets(eval.n, eval.s, eval.m)))
    /\ (eval.op = "meets_success_rate_threshold" /\ eval.done)
       => /\ ~eval.panicked
          /\ eval.ret = IdealMeets(eval.n, eval.s, eval.m)

\* C9: the result cell of assign_identity_verification is 1 exactly when the
\* identity datum equals the commitment, as field elements and, when both
\* were given as u64 values, as integers.
C9_CommitmentEquality ==
    (eval.op = "assign_identity_verification" /\ eval.done /\ eval.known)
    => /\ eval.result = Known(BoolToFp(eval.a = eval.b))
       /\ eval.from_u64 => (eval.result = Known(FpOne) <=> eval.x = eval.y)

\* Two field elements that differ only above their low eight bytes were
\* compared, and found different.
C9_Witness ==
    /\ eval.op = "assign_identity_verification" /\ eval.done /\ eval.known
    /\ ~eval.from_u64
    /\ eval.a # eval.b
    /\ field_to_u64(eval.a) = field_to_u64(eval.b)
    /\ eval.result = Known(FpZero)

\* C10: once an initialize_zk_system call has completed successfully, the
\* parameters, the proving key and the verifying key are present in every
\* later state, whatever calls follow.
C10_StaysInitialized == init_completed => Initialized

\* An initialization attempt failed after an earlier one had succeeded, and
\* a proof made before it is still held.
C10_Witness ==
    /\ init_completed
    /\ last.op = "initialize_zk_system"
    /\ last.ret = "err"
    /\ proofs # {}
    /\ Initialized

\* C11: after the first successful initialize_zk_system call, no later
\* step assigns the stored proving key or verifying key.
C11_KeysNeverReassigned ==
    [][init_completed
       => (PROVING_KEY' = PROVING_KEY /\ VERIFYING_KEY' = VERIFYING_KEY)]_vars

\* The initialize executions that have made their first write to the
\* statics and not yet their last.
MidWrite == {t \in Threads : threads[t].pc \in {"write_pk", "write_vk"}}

\* C12: under every interleaving, no two initialize executions are between
\* their first and last write at once, no prove or verify execution is
\* between its two reads while an initialize execution is between its
\* writes, and no call returns after seeing the parameters present with a
\* key absent or parameters and a key of two initialize executions.
C12_InitSerialized ==
    /\ Cardinality(MidWrite) <= 1
    /\ MidWrite # {} => \A t \in Threads : threads[t].pc # "read_key"
    /\ last.msg \notin {"Proving key not available", "Verifying key not available"}
    /\ (last.op \in {"generate_trust_score_proof", "verify_trust_score_proof"}
        /\ last.ret = "ok")
       => last.params_gen = last.key_gen

\* The byte vectors a caller can hold: the proofs generated so far, an
\* empty vector and bytes that are no proof.
HeldProofs == proofs \cup {EmptyBytes, GarbageBytes}

C14_VerifyReturnsBoolean ==
    /\ Initialized
       => \A p \in HeldProofs, e \in BOOLEAN :
              /\ VerifyCall(p, e).ret = "ok"
              /\ ~verify_proof(SETUP_PARAMS[1], VERIFYING_KEY[1], VerifyPublicInput(e), p)
                 => VerifyCall(p, e).value = FALSE
    /\ last.op = "verify_trust_score_proof"
       => /\ Initialized => last.ret = "ok"
          /\ last.ret = "ok" => last.value \in BOOLEAN
          /\ last.ret = "err"
             => (SETUP_PARAMS = None /\ last.msg = "ZK system not initialized")

\* A generated proof was verified against the instance it was not made
\* for, and the call returned Ok(false).
C14_Witness ==
    /\ Initialized
    /\ last.op = "verify_trust_score_proof"
    /\ last.proof.kind = "proof"
    /\ last.proof.instance # last.public_input
    /\ last.ret = "ok"
    /\ last.value = FALSE

\* C15: verify_trust_score_proof on an empty byte vector returns an error
\* or Ok(false); verify_trust_proof on a null pointer or with proof_len = 0
\* returns 0 and reads nothing through the pointer; verify_trust_proof never
\* reads through a null pointer.
C15_FailsClosed ==
    /\ (last.op = "verify_trust_score_proof" /\ last.proof = EmptyBytes)
       => (last.ret = "err" \/ (last.ret = "ok" /\ last.value = FALSE))
    /\ (last.op = "verify_trust_proof" /\ (last.buffer.null \/ last.buffer.len = 0))
       => (last.code = 0 /\ ~last.deref)
    /\ last.op = "verify_trust_proof" => ~(last.deref /\ last.buffer.null)

\* verify_trust_proof was given a null pointer with the length of a proof.
C15_Witness ==
    /\ last.op = "verify_trust_proof"
    /\ last.buffer.null
    /\ last.buffer.len = MockProofLen
    /\ last.code = 0

\* C16: once the system is Initialized, no step (initialize, prove or
\* verify) changes what verify_trust_score_proof returns for any held byte
\* vector and expected_result, and a verify step changes no state besides
\* the record of the call.
C16_VerifyIdempotent ==
    [][Initialized
       => /\ \A p \in HeldProofs, e \in BOOLEAN : VerifyCall(p, e)' = VerifyCall(p, e)
          /\ last'.op = "verify_trust_score_proof"
             => /\ last'.ret = VerifyCall(last'.proof, last'.expected_result).ret
                /\ last'.value = VerifyCall(last'.proof, last'.expected_result).value
                /\ UNCHANGED <<globals, init_completed, proofs, results, heap>>]_vars

\* A verify call accepted a proof while the statics hold the objects of a
\* repeated initialization.
C16_Witness ==
    /\ Initialized
    /\ SETUP_PARAMS[1].gen # 0
    /\ last.op = "verify_trust_score_proof"
    /\ last.proof.kind = "proof"
    /\ last.ret = "ok"
    /\ last.value = TRUE

\* C17: an initialize_zk_system call whose key generation fails returns
\* the key-generation error and leaves the three statics as they were.
C17_FailedKeygenWritesNothing ==
    [][(last'.op = "initialize_zk_system" /\ last'.ret = "err")
       => /\ last'.msg \in {"Failed to generate VK", "Failed to generate PK"}
          /\ ~last'.value
          /\ SETUP_PARAMS' = SETUP_PARAMS
          /\ PROVING_KEY' = PROVING_KEY
          /\ VERIFYING_KEY' = VERIFYING_KEY
          /\ init_completed' = init_completed]_vars

\* Proving-key generation failed in the first initialization attempt and
\* the system is still Uninitialized.
C17_Witness ==
    /\ last.op = "initialize_zk_system"
    /\ last.ret = "err"
    /\ last.msg = "Failed to generate PK"
    /\ ~init_completed
    /\ SETUP_PARAMS = None /\ PROVING_KEY = None /\ VERIFYING_KEY = None

\* The allocations owned by the results the caller holds.
RECURSIVE HeldOwned(_)
HeldOwned(rs) ==
    IF rs = <<>> THEN EmptyHeap ELSE HeapPlus(Owned(Head(rs)), HeldOwned(Tail(rs)))

\* C18: the live allocations are exactly those owned by the results
\* returned by generate_trust_proof and not yet freed, so none is live once
\* each result has been freed once; free_proof_result on a result releases
\* its structure, its proof buffer and its error message, and on a null
\* pointer releases nothing.
C18_MemoryOwnership ==
    [][/\ heap' = HeldOwned(results')
       /\ results' = <<>> => heap' = EmptyHeap
       /\ (last'.op = "free_proof_result" /\ last'.code = 0)
          => (heap' = heap /\ results' = results)
       /\ (last'.op = "free_proof_result" /\ last'.code # 0)
          => heap' = HeapMinus(heap, Owned(results[last'.code]))]_vars

\* A held result has been freed and nothing is live.
C18_Witness ==
    /\ last.op = "free_proof_result"
    /\ last.code # 0
    /\ results = <<>>
    /\ heap = EmptyHeap

\* C19: generate_trust_proof called while the system is Uninitialized
\* returns success = false, and verify_trust_proof called while
\* Uninitialized does not return 1.
C19_FlatObeysLifecycle ==
    SETUP_PARAMS = None
    => /\ last.op = "generate_trust_proof" => last.value = FALSE
       /\ last.op = "verify_trust_proof" => last.code # 1

C21_CommitmentRoundTrip ==
    (eval.op = "verify_commitment" /\ eval.done /\ eval.d1 = eval.d2)
    => /\ eval.m = WrappingAdd(simple_hash(eval.d1), eval.n)
       /\ eval.ret = (eval.s = eval.n)

\* A commitment whose sum wrapped past the u64 range was verified with the
\* nonce it was made with.
C21_Witness ==
    /\ eval.op = "verify_commitment" /\ eval.done
    /\ eval.d1 = eval.d2 /\ eval.s = eval.n
    /\ eval.n = [i \in 1..U64Bytes |-> ByteBase - 1]
    /\ simple_hash(eval.d1) # U64(0)
    /\ NumCmp(eval.m, simple_hash(eval.d1)) < 0
    /\ eval.ret

\* C22: two different byte sequences have different simple_hash values, so
\* verify_commitment on other data than the commitment was made for, with
\* the same nonce, is false.
C22_HashInjective ==
    (eval.op = "verify_commitment" /\ eval.done /\ eval.d1 # eval.d2)
    => /\ simple_hash(eval.d1) # simple_hash(eval.d2)
       /\ eval.s = eval.n => ~eval.ret

C24_EqualityEnabled ==
    (eval.op = "MockProver" /\ eval.done)
    => /\ SynthesizeCopies \subseteq Configure(eval.circuit).equality
       /\ eval.error = ""

\* Whether every private witness of the evaluated chip was given.
AllWitnessesKnown ==
    eval.known /\ (eval.op = "assign_loan_history_verification" => eval.known2)

\* C25: in every chip the assign operation completes; with a private
\* witness unknown the result (and the loan chip's success rate) is
\* unknown, and with all inputs known the result is known and is 0 or 1.
C25_UnknownWitness ==
    (eval.done /\ eval.op \in {"assign_comparison", "assign_range_check",
                               "assign_identity_verification",
                               "assign_loan_history_verification"})
    => /\ ~eval.panicked
       /\ AllWitnessesKnown => eval.result \in {Known(FpZero), Known(FpOne)}
       /\ ~AllWitnessesKnown
          => /\ eval.result = Unknown
             /\ eval.op = "assign_loan_history_verification" => eval.rate = Unknown

\* C30: for count > 0 the success rate computed by
\* assign_loan_history_verification and by calculate_success_rate is
\* floor(successCount * 10000 / count) over the integers, without wrapping
\* and without a panic.
C30_RateExact ==
    (eval.done /\ eval.known /\ eval.known2 /\ eval.n # U64(0)
     /\ eval.op \in {"assign_loan_history_verification", "meets_success_rate_threshold"})
    => /\ ~eval.panicked
       /\ ~MulOverflows(eval.s, RateScale)
       /\ IsKnown(eval.rate)
       /\ eval.rate[1] = IdealRate(eval.s, eval.n) \o Zeros(ReprBytes - U64Bytes - 2)

\* C26: every circuit generate_trust_score_proof hands to create_proof has
\* the type, and so the columns and gates, of the circuit the stored keys
\* were generated from, and is proved under the stored row exponent.
C26_SameShape ==
    /\ \A p \in proofs :
           /\ Initialized
           /\ p.shape = PROVING_KEY[1].shape
           /\ p.shape = VERIFYING_KEY[1].shape
           /\ Configure(p.shape) = Configure(PROVING_KEY[1].shape)
           /\ p.k = SETUP_PARAMS[1].k
    /\ (last.op = "generate_trust_score_proof" /\ last.ret = "ok")
       => last.proof \in proofs

\* A proof was generated under the keys of a repeated initialization while
\* proofs made earlier are held.
C26_Witness ==
    /\ last.op = "generate_trust_score_proof"
    /\ last.ret = "ok"
    /\ PROVING_KEY[1].gen # 0
    /\ Cardinality(proofs) >= 2

\* C27: at the sequential boundary the three statics are all absent or all
\* present in every state, and no call returns "Proving key not available"
\* or "Verifying key not available".
C27_AllOrNone ==
    /\ \/ (SETUP_PARAMS = None /\ PROVING_KEY = None /\ VERIFYING_KEY = None)
       \/ (SETUP_PARAMS # None /\ PROVING_KEY # None /\ VERIFYING_KEY # None)
    /\ last.msg \notin {"Proving key not available", "Verifying key not available"}
    /\ GenerateGuard \in {"", "ZK system not initialized"}
    /\ VerifyGuard \in {"", "ZK system not initialized"}

\* A verify call passed both guards while the three statics hold the
\* objects of one successful initialization.
C27_Witness ==
    /\ init_completed
    /\ last.op = "verify_trust_score_proof"
    /\ last.ret = "ok"
    /\ last.proof = GarbageBytes
    /\ SETUP_PARAMS[1].gen = VERIFYING_KEY[1].gen
    /\ SETUP_PARAMS[1].gen = PROVING_KEY[1].gen

\* C28: every ProofResult returned by generate_trust_proof has either
\* success = true, a non-null proof_data of proof_len > 0 bytes and a null
\* error_message, or success = false, a null proof_data, proof_len = 0 and
\* a non-null error_message.
C28_WellFormedResult ==
    \A i \in 1..Len(results) :
        LET r == results[i] IN
        \/ /\ r.success
           /\ ~r.proof_data.null
           /\ r.proof_data.len = r.proof_len
           /\ r.proof_len > 0
           /\ r.error_message.null
        \/ /\ ~r.success
           /\ r.proof_data.null
           /\ r.proof_len = 0
           /\ ~r.error_message.null

\* C29: two consecutive verify_trust_score_proof calls on the same bytes
\* and expected_result return the same value whatever thresholds they are
\* given, and so do two consecutive verify_trust_proof calls on the same
\* buffer; what verify_trust_proof returns is what it returns for every
\* threshold.
C29_ThresholdIgnored ==
    [][/\ (/\ last.op = "verify_trust_score_proof"
           /\ last'.op = "verify_trust_score_proof"
           /\ last'.proof = last.proof
           /\ last'.expected_result = last.expected_result)
          => (last'.ret = last.ret /\ last'.msg = last.msg /\ last'.value = last.value)
       /\ (/\ last.op = "verify_trust_proof"
           /\ last'.op = "verify_trust_proof"
           /\ last'.buffer = last.buffer
           /\ last'.expected_result = last.expected_result)
          => last'.code = last.code
       /\ last'.op = "verify_trust_proof"
          => \A th \in BoundaryVals :
                 VerifyTrustProofCode(last'.buffer, last'.buffer.len, th,
                                      last'.expected_result) = last'.code]_vars

\* A proof of outcome false was accepted by a verify call given threshold
\* 0, a threshold under which no score has outcome false.
C29_Witness ==
    /\ last.op = "verify_trust_score_proof"
    /\ last.ret = "ok"
    /\ last.value = TRUE
    /\ last.proof.kind = "proof"
    /\ last.proof.instance = FpZero
    /\ last.expected_result = FALSE
    /\ last.threshold = 0

====
